---- MODULE Spec2Model ----
(***************************************************************************)
(* A model of pyrvea's Population (src/pyrvea/Population/Population.py):   *)
(* the genome list, the objectives / fitness / constraint-violation        *)
(* matrices and the ideal / worst fitness points, driven through add,      *)
(* delete_or_keep and update_ideal_and_nadir (Spec); of the last steps of  *)
(* EvoNN.train and EvoDN2.train, non_dominated and select, on an evolved   *)
(* population (SpecSelect, FairSpecSelect); and of Population.evolve       *)
(* driving the hooks of a strategy (SpecEvolve); of the complexity         *)
(* objective of the flat and the modular encoding (SpecComplexity); of     *)
(* the cached front read by hypervolume (SpecFront); of bounded polynomial *)
(* mutation (SpecMutation); and of fit and objectives of the EvoNN and     *)
(* EvoDN2 problems (SpecEval).                                             *)
(***************************************************************************)
EXTENDS Integers, Sequences, FiniteSets, TLC

VARIABLES
    problem,               \* the problem object handed to Population.__init__
    individuals,           \* self.individuals: list of genomes
    objectives,            \* self.objectives: one row per evaluated genome
    fitness,               \* self.fitness: one row per evaluated genome
    constraint_violation,  \* self.constraint_violation
    ideal_fitness,         \* self.ideal_fitness (extended reals)
    worst_fitness,         \* self.worst_fitness (extended reals)
    last,                  \* the call that produced this state and how it ended
    run                    \* the caller's side: a model selection or an evolve in progress

vars == <<problem, individuals, objectives, fitness, constraint_violation,
          ideal_fitness, worst_fitness, last, run>>

(***************************************************************************)
(* Bounds of the model.                                                    *)
(***************************************************************************)
MaxPop == 3       \* genomes a population holds at most
MaxBatch == 2     \* candidates in one add call at most
MaxIndices == 2   \* entries of the index list of one delete_or_keep call

(***************************************************************************)
(* Extended reals: np.inf, -np.inf and the finite values.                  *)
(***************************************************************************)
PosInf == <<1, 0>>
NegInf == <<-1, 0>>
Fin(v) == <<0, v>>

ExtLeq(a, b) ==
    \/ a[1] < b[1]
    \/ a[1] = b[1] /\ (a[1] # 0 \/ a[2] <= b[2])

ExtMin(a, b) == IF ExtLeq(a, b) THEN a ELSE b
ExtMax(a, b) == IF ExtLeq(a, b) THEN b ELSE a

(***************************************************************************)
(* The problem.  Genomes are candidate weight structures; objectives() is  *)
(* a deterministic function of the genome that either returns the pair     *)
(* [training_error, complexity] or raises (the least-squares solve of the  *)
(* evaluator does not converge).                                           *)
(***************************************************************************)
Genomes == {"a", "b", "x"}

num_of_objectives == 2

ObjTable == [a |-> <<0, 1>>, b |-> <<1, 0>>]

\* The genomes model selection is run on: the weight matrix w (row 1 is
\* the bias row), the objectives it evaluates to, the number of nonzero
\* weights of the output layer the least-squares fit gives it and rss /
\* num_of_samples of that fit.
Models ==
    [m0 |-> [w |-> <<<<1, 1>>, <<1, 1>>, <<1, -1>>, <<2, 0>>>>,
             obj |-> <<1, 5>>, w2_nonzero |-> 1, mean_rss |-> 1],
     m1 |-> [w |-> <<<<1, 1>>, <<1, 1>>, <<-1, 0>>, <<0, 0>>>>,
             obj |-> <<2, 3>>, w2_nonzero |-> 1, mean_rss |-> 2],
     m2 |-> [w |-> <<<<1, 1>>, <<0, 0>>, <<0, 2>>, <<0, 0>>>>,
             obj |-> <<3, 1>>, w2_nonzero |-> 1, mean_rss |-> 3],
     m3 |-> [w |-> <<<<1, 1>>, <<1, 0>>, <<0, 0>>, <<0, 1>>>>,
             obj |-> <<2, 2>>, w2_nonzero |-> 1, mean_rss |-> 2]]

Raised(exc) == [raised |-> TRUE, exc |-> exc]

problem_objectives(ind) ==
    IF ind \in DOMAIN ObjTable
    THEN [raised |-> FALSE, obj |-> ObjTable[ind]]
    ELSE IF ind \in DOMAIN Models
    THEN [raised |-> FALSE, obj |-> Models[ind].obj]
    ELSE Raised("LinAlgError")

ObjRows == {ObjTable[g] : g \in DOMAIN ObjTable}

(***************************************************************************)
(* self: the fields of the Population object the operations read and       *)
(* write, with exc the exception an operation ended with ("none": it       *)
(* returned normally).                                                     *)
(***************************************************************************)
Self ==
    [individuals |-> individuals, objectives |-> objectives, fitness |-> fitness,
     constraint_violation |-> constraint_violation,
     ideal_fitness |-> ideal_fitness, worst_fitness |-> worst_fitness,
     exc |-> "none"]

\* Population.__init__ with assign_type = "empty".
EmptyPopulation ==
    [individuals |-> <<>>, objectives |-> <<>>, fitness |-> <<>>,
     constraint_violation |-> <<>>,
     ideal_fitness |-> [j \in 1..num_of_objectives |-> PosInf],
     worst_fitness |-> [j \in 1..num_of_objectives |-> NegInf],
     exc |-> "none"]

\* self.objectives * self.problem.objs
eval_fitness(self) ==
    [i \in 1..Len(self.objectives) |->
        [j \in 1..num_of_objectives |-> self.objectives[i][j] * problem.objs[j]]]

\* With constraints, evaluate_individual calls self.eval_fitness(ind, obj,
\* self.problem); eval_fitness takes self only, so Python raises TypeError.
evaluate_individual(ind) ==
    LET r == problem_objectives(ind)
    IN  IF r.raised THEN r
        ELSE IF problem.num_of_constraints # 0
             THEN Raised("TypeError")
             ELSE [raised |-> FALSE, obj |-> r.obj, CV |-> <<>>, fitness |-> r.obj]

append_individual(self, ind) ==
    LET s1 == [self EXCEPT !.individuals = Append(@, ind)]
        e == evaluate_individual(ind)
    IN  IF e.raised
        THEN [s1 EXCEPT !.exc = e.exc]
        ELSE [s1 EXCEPT !.objectives = Append(@, e.obj),
                        !.constraint_violation = @ \o e.CV,
                        !.fitness = Append(@, e.fitness)]

\* np.amin / np.amax over axis 0 of vstack((point, rows)).
RECURSIVE ColMin(_, _, _)
ColMin(acc, rows, j) ==
    IF rows = <<>> THEN acc
    ELSE ColMin(ExtMin(acc, Fin(Head(rows)[j])), Tail(rows), j)

RECURSIVE ColMax(_, _, _)
ColMax(acc, rows, j) ==
    IF rows = <<>> THEN acc
    ELSE ColMax(ExtMax(acc, Fin(Head(rows)[j])), Tail(rows), j)

NoVals == [none |-> TRUE]
Vals(rows) == [none |-> FALSE, rows |-> rows]

\* A variant that recomputes the bounds from the rows alone, dropping the
\* bounds it had.
update_ideal_and_nadir_from_scratch(self, new_objective_vals) ==
    LET check_ideal_with ==
            IF new_objective_vals.none THEN self.fitness
            ELSE new_objective_vals.rows
    IN  [self EXCEPT
            !.ideal_fitness =
                [j \in 1..num_of_objectives |-> ColMin(PosInf, check_ideal_with, j)],
            !.worst_fitness =
                [j \in 1..num_of_objectives |-> ColMax(NegInf, check_ideal_with, j)]]

update_ideal_and_nadir(self, new_objective_vals) ==
    LET check_ideal_with ==
            IF new_objective_vals.none THEN self.fitness
            ELSE new_objective_vals.rows
    IN  [self EXCEPT
            !.ideal_fitness =
                [j \in 1..num_of_objectives |-> ColMin(@[j], check_ideal_with, j)],
            !.worst_fitness =
                [j \in 1..num_of_objectives |-> ColMax(@[j], check_ideal_with, j)]]

RECURSIVE add_loop(_, _, _)
add_loop(self, new_pop, i) ==
    IF i > Len(new_pop) \/ self.exc # "none" THEN self
    ELSE add_loop(append_individual(self, new_pop[i]), new_pop, i + 1)

add(self, new_pop) ==
    LET s == add_loop(self, new_pop, 1)
    IN  IF s.exc # "none" THEN s ELSE update_ideal_and_nadir(s, NoVals)

(***************************************************************************)
(* delete_or_keep.  Python index k (0-based, negative counts from the      *)
(* end) addresses position Norm(k, n) + 1 of a sequence of length n.       *)
(***************************************************************************)
\* A variant that checks the upper end only.
InRangeUpperOnly(k, n) == k < n

InRange(k, n) == -n <= k /\ k < n
Norm(k, n) == IF k < 0 THEN k + n ELSE k

\* mask = np.ones(n, dtype=bool); mask[indices] = False
Mask(indices, n) ==
    [p \in 1..n |-> ~ \E i \in 1..Len(indices) : Norm(indices[i], n) = p - 1]

\* rows[mask]: the rows at the positions where mask is want, in order.
RECURSIVE BoolIndex(_, _, _, _)
BoolIndex(rows, mask, want, p) ==
    IF p > Len(rows) THEN <<>>
    ELSE (IF mask[p] = want THEN <<rows[p]>> ELSE <<>>)
         \o BoolIndex(rows, mask, want, p + 1)

\* Lines 177-198: the mask and the two halves it splits every matrix into.
\* Indexing with an index out of range, or with a mask whose length is not the
\* number of rows, raises IndexError before anything is assigned.
split_by_mask(self, indices) ==
    LET n == Len(self.individuals)
        cv == self.constraint_violation
        has_cv == Len(cv) > 0
    IN  IF \/ \E i \in 1..Len(indices) : ~InRange(indices[i], n)
           \/ Len(self.objectives) # n
           \/ Len(self.fitness) # n
           \/ has_cv /\ Len(cv) # n
        THEN Raised("IndexError")
        ELSE
        LET mask == Mask(indices, n)
        IN  [raised |-> FALSE,
             new_pop |-> BoolIndex(self.individuals, mask, TRUE, 1),
             deleted_pop |-> BoolIndex(self.individuals, mask, FALSE, 1),
             new_obj |-> BoolIndex(self.objectives, mask, TRUE, 1),
             deleted_obj |-> BoolIndex(self.objectives, mask, FALSE, 1),
             new_fitness |-> BoolIndex(self.fitness, mask, TRUE, 1),
             deleted_fitness |-> BoolIndex(self.fitness, mask, FALSE, 1),
             new_cv |-> IF has_cv THEN BoolIndex(cv, mask, TRUE, 1) ELSE cv,
             deleted_cv |-> IF has_cv THEN BoolIndex(cv, mask, FALSE, 1) ELSE cv]

\* A variant with the two modes exchanged.
delete_or_keep_modes_swapped(self, indices, mode) ==
    LET m == split_by_mask(self, indices)
    IN  IF m.raised THEN [self EXCEPT !.exc = m.exc]
        ELSE IF mode = "keep"
        THEN [self EXCEPT !.individuals = m.new_pop,
                          !.objectives = m.new_obj,
                          !.fitness = m.new_fitness,
                          !.constraint_violation = m.new_cv]
        ELSE IF mode = "delete"
        THEN [self EXCEPT !.individuals = m.deleted_pop,
                          !.objectives = m.deleted_obj,
                          !.fitness = m.deleted_fitness,
                          !.constraint_violation = m.deleted_cv]
        ELSE self

\* A variant whose keep branch assigns the wrong half of the fitness matrix.
delete_or_keep_keep_wrong_fitness(self, indices, mode) ==
    LET m == split_by_mask(self, indices)
    IN  IF m.raised THEN [self EXCEPT !.exc = m.exc]
        ELSE IF mode = "delete"
        THEN [self EXCEPT !.individuals = m.new_pop,
                          !.objectives = m.new_obj,
                          !.fitness = m.new_fitness,
                          !.constraint_violation = m.new_cv]
        ELSE IF mode = "keep"
        THEN [self EXCEPT !.individuals = m.deleted_pop,
                          !.objectives = m.deleted_obj,
                          !.fitness = m.new_fitness,
                          !.constraint_violation = m.deleted_cv]
        ELSE self

\* A variant that recomputes the bounds from the survivors after a delete.
delete_or_keep_refreshing(self, indices, mode) ==
    LET m == split_by_mask(self, indices)
    IN  IF m.raised THEN [self EXCEPT !.exc = m.exc]
        ELSE IF mode = "delete"
        THEN [self EXCEPT
                !.individuals = m.new_pop,
                !.objectives = m.new_obj,
                !.fitness = m.new_fitness,
                !.constraint_violation = m.new_cv,
                !.ideal_fitness =
                    [j \in 1..num_of_objectives |-> ColMin(PosInf, m.new_fitness, j)],
                !.worst_fitness =
                    [j \in 1..num_of_objectives |-> ColMax(NegInf, m.new_fitness, j)]]
        ELSE IF mode = "keep"
        THEN [self EXCEPT !.individuals = m.deleted_pop,
                          !.objectives = m.deleted_obj,
                          !.fitness = m.deleted_fitness,
                          !.constraint_violation = m.deleted_cv]
        ELSE self

delete_or_keep(self, indices, mode) ==
    LET m == split_by_mask(self, indices)
    IN  IF m.raised THEN [self EXCEPT !.exc = m.exc]
        ELSE IF mode = "delete"
        THEN [self EXCEPT !.individuals = m.new_pop,
                          !.objectives = m.new_obj,
                          !.fitness = m.new_fitness,
                          !.constraint_violation = m.new_cv]
        ELSE IF mode = "keep"
        THEN [self EXCEPT !.individuals = m.deleted_pop,
                          !.objectives = m.deleted_obj,
                          !.fitness = m.deleted_fitness,
                          !.constraint_violation = m.deleted_cv]
        ELSE self

(***************************************************************************)
(* The state machine: one action per public operation.                     *)
(***************************************************************************)
SeqsUpTo(S, k) == UNION {[1..m -> S] : m \in 0..k}

Batches == SeqsUpTo(Genomes, MaxBatch)
Modes == {"delete", "keep"}
IndexLists(n) == SeqsUpTo({-n - 1, -1} \cup (0..n), MaxIndices)
ValsArgs == {NoVals} \cup {Vals(<<r>>) : r \in ObjRows}
Problems == [num_of_constraints : {0, 1}, objs : {<<1, -1>>}]

\* No selection and no evolve is in progress.
NoRun == [pc |-> "none"]

\* last: the call that led here: the operation, the genomes (add) or rows
\* (update_ideal_and_nadir) it was given, its mode, the number of genomes
\* before it and the exception it ended with.
Call(op, arg, mode) ==
    [op |-> op, arg |-> arg, mode |-> mode, size |-> Len(individuals),
     exc |-> "none"]

Store(s, call) ==
    /\ individuals' = s.individuals
    /\ objectives' = s.objectives
    /\ fitness' = s.fitness
    /\ constraint_violation' = s.constraint_violation
    /\ ideal_fitness' = s.ideal_fitness
    /\ worst_fitness' = s.worst_fitness
    /\ last' = [call EXCEPT !.exc = s.exc]
    /\ UNCHANGED <<problem, run>>

Init ==
    /\ problem \in Problems
    /\ individuals = EmptyPopulation.individuals
    /\ objectives = EmptyPopulation.objectives
    /\ fitness = EmptyPopulation.fitness
    /\ constraint_violation = EmptyPopulation.constraint_violation
    /\ ideal_fitness = EmptyPopulation.ideal_fitness
    /\ worst_fitness = EmptyPopulation.worst_fitness
    /\ last = Call("__init__", <<>>, "")
    /\ run = NoRun

Add ==
    \E new_pop \in Batches :
        /\ Len(individuals) + Len(new_pop) <= MaxPop
        /\ Store(add(Self, new_pop), Call("add", new_pop, ""))

DeleteOrKeep ==
    \E indices \in IndexLists(Len(individuals)), mode \in Modes :
        /\ Store(delete_or_keep(Self, indices, mode),
                 Call("delete_or_keep", <<>>, mode))

UpdateIdealAndNadir ==
    \E v \in ValsArgs :
        /\ Store(update_ideal_and_nadir(Self, v),
                 Call("update_ideal_and_nadir",
                      IF v.none THEN <<>> ELSE v.rows,
                      IF v.none THEN "None" ELSE "vals"))

Next == Add \/ DeleteOrKeep \/ UpdateIdealAndNadir

Spec == Init /\ [][Next]_vars

(***************************************************************************)
(* Properties of the population.                                           *)
(***************************************************************************)
Unconstrained == problem.num_of_constraints = 0
Objs == 1..num_of_objectives
AddReturned == last.op = "add" /\ last.exc = "none"

\* C1: in every state reached by add and delete_or_keep calls, also one left
\* behind by an add in which a candidate's evaluation raised, the genome list,
\* the objectives matrix and the fitness matrix have the same number of rows,
\* and row i of objectives and of fitness is the evaluation of individuals[i]
\* (stated for a problem without constraints; a raising genome's row may hold
\* anything, but must be there).
C1_RowsPaired ==
    Unconstrained =>
        \A i \in 1..Len(individuals) :
            LET e == evaluate_individual(individuals[i])
            IN  /\ i <= Len(objectives)
                /\ i <= Len(fitness)
                /\ ~e.raised => /\ objectives[i] = e.obj
                                /\ fitness[i] = e.fitness

\* C2: after every add that completes, ideal_fitness[j] is the minimum of its
\* value before the call and of column j of the fitness rows the batch added,
\* and worst_fitness[j] the corresponding maximum.
C2_AddFoldsBatchIntoBounds ==
    [][(AddReturned)' =>
        LET new_rows == SubSeq(fitness', Len(fitness) + 1, Len(fitness'))
        IN  \A j \in Objs :
                /\ ideal_fitness'[j] = ColMin(ideal_fitness[j], new_rows, j)
                /\ worst_fitness'[j] = ColMax(worst_fitness[j], new_rows, j)]_vars

C4_AddInInputOrder ==
    [][(AddReturned /\ Unconstrained)' =>
        LET s == Len(individuals)
            c == last'.arg
        IN  /\ \A i \in 1..Len(c) :
                LET e == evaluate_individual(c[i])
                IN  /\ s + i <= Len(individuals') /\ individuals'[s + i] = c[i]
                    /\ s + i <= Len(objectives') /\ objectives'[s + i] = e.obj
                    /\ s + i <= Len(fitness') /\ fitness'[s + i] = e.fitness
            /\ SubSeq(individuals', 1, s) = individuals
            /\ SubSeq(objectives', 1, Len(objectives)) = objectives
            /\ SubSeq(fitness', 1, Len(fitness)) = fitness]_vars

\* C5: an evaluation failure of one candidate does not abort the batch: add
\* returns, every candidate of the batch (the failing one too) has been
\* inserted with a row of objectives and of fitness, and the bounds cover
\* the rows of the population.
C5_FailureDoesNotAbortBatch ==
    [][(last.op = "add" /\ Unconstrained)' =>
        /\ last'.exc = "none"
        /\ individuals' = individuals \o last'.arg
        /\ Len(objectives') = Len(objectives) + Len(last'.arg)
        /\ Len(fitness') = Len(fitness) + Len(last'.arg)
        /\ \A j \in Objs :
            /\ ideal_fitness'[j] = ColMin(ideal_fitness'[j], fitness', j)
            /\ worst_fitness'[j] = ColMax(worst_fitness'[j], fitness', j)]_vars

(***************************************************************************)
(* Properties of delete_or_keep and of the refresh of the bounds.          *)
(***************************************************************************)
Paired == Len(objectives) = Len(individuals) /\ Len(fitness) = Len(individuals)
Removed == last.op = "delete_or_keep" /\ last.exc = "none"

\* The positions (1-based) a list of Python indices names, the k-th smallest
\* member of a set of positions, and the rows at a set of positions in their
\* original order.
Position(k, n) == IF k < 0 THEN n + k + 1 ELSE k + 1
Named(indices, n) == {Position(indices[i], n) : i \in 1..Len(indices)}
KthOf(S, k) == CHOOSE p \in S : Cardinality({q \in S : q < p}) = k - 1
RowsAt(rows, S) == [k \in 1..Cardinality(S) |-> rows[KthOf(S, k)]]
Ascending(S) == [k \in 1..Cardinality(S) |-> KthOf(S, k)]
OutOfRange(indices, n) ==
    \E i \in 1..Len(indices) : indices[i] < -n \/ indices[i] >= n

\* C6: delete_or_keep(indices, "delete") leaves exactly the rows whose index
\* is not in indices and delete_or_keep(indices, "keep") exactly the rows
\* whose index is in indices (an index read as Python reads it), the survivors
\* in their original order whatever the order of indices, and genomes,
\* objectives and fitness filtered by the same index set; on a population
\* whose matrices pair with its genomes, in-range indices always succeed.
C6_SurvivorsFiltered ==
    LET n == Len(individuals)
    IN  \A indices \in IndexLists(n), mode \in {"delete", "keep"} :
            LET r == delete_or_keep(Self, indices, mode)
                S == IF mode = "delete" THEN (1..n) \ Named(indices, n)
                     ELSE Named(indices, n)
            IN  /\ (Paired /\ ~OutOfRange(indices, n)) => r.exc = "none"
                /\ r.exc = "none" =>
                    /\ r.individuals = RowsAt(individuals, S)
                    /\ r.objectives = RowsAt(objectives, S)
                    /\ r.fitness = RowsAt(fitness, S)

\* A delete that took one of three genomes and left two different ones.
C6_Witness ==
    /\ Removed /\ last.mode = "delete" /\ last.size = 3
    /\ individuals = <<"a", "b">>
    /\ objectives = <<ObjTable["a"], ObjTable["b"]>>

\* C7: for every index set I and its complement C within 0..n-1 (I empty and
\* I all indices included), delete_or_keep(I, "delete") and
\* delete_or_keep(C, "keep") on the same population leave identical genome
\* lists, objectives and fitness rows.
C7_DeleteIsKeepOfComplement ==
    LET n == Len(individuals)
    IN  \A I \in SUBSET (0..(n - 1)) :
            LET C == (0..(n - 1)) \ I
                d == delete_or_keep(Self, Ascending(I), "delete")
                k == delete_or_keep(Self, Ascending(C), "keep")
            IN  /\ d.exc = k.exc
                /\ Paired => d.exc = "none"
                /\ d.individuals = k.individuals
                /\ d.objectives = k.objectives
                /\ d.fitness = k.fitness

\* A keep that left two different genomes of three.
C7_Witness ==
    /\ Removed /\ last.mode = "keep" /\ last.size = 3
    /\ Len(individuals) = 2 /\ individuals[1] # individuals[2]
    /\ Paired

\* C8: delete_or_keep ends with IndexError whenever a supplied index is out
\* of range (below -n or at least n, n the number of genomes), and then
\* individuals, objectives, fitness, constraint_violation, ideal_fitness and
\* worst_fitness are unchanged.
C8_OutOfRangeRaisesAndKeepsState ==
    LET n == Len(individuals)
    IN  \A indices \in IndexLists(n), mode \in Modes :
            OutOfRange(indices, n) =>
                delete_or_keep(Self, indices, mode) =
                    [Self EXCEPT !.exc = "IndexError"]

\* A delete_or_keep on a paired population of two that ended with IndexError.
C8_Witness ==
    /\ last.op = "delete_or_keep" /\ last.exc = "IndexError"
    /\ Paired /\ Len(individuals) = 2

\* C9: delete_or_keep never changes ideal_fitness or worst_fitness, in either
\* mode, even when it removes the individuals that defined the bounds.
C9_RemovalKeepsBounds ==
    [][(last.op = "delete_or_keep")' =>
        /\ ideal_fitness' = ideal_fitness
        /\ worst_fitness' = worst_fitness]_vars

\* A removal after which no surviving row attains the ideal in some objective.
C9_Witness ==
    /\ Removed /\ last.size > Len(individuals) /\ Len(fitness) >= 1
    /\ \E j \in Objs : ideal_fitness[j] # ColMin(PosInf, fitness, j)

\* C10: a full refresh (update_ideal_and_nadir with no argument) recomputes
\* the bounds from scratch: afterwards ideal_fitness[j] and worst_fitness[j]
\* are the minimum and maximum of column j of the fitness rows in the
\* population (stated for the refresh a caller triggers right after a
\* removal that left at least one row).
C10_RefreshRecomputesFromSurvivors ==
    [][(/\ Removed
        /\ (last.op = "update_ideal_and_nadir" /\ last.mode = "None")'
        /\ Len(fitness') >= 1) =>
        \A j \in Objs :
            /\ ideal_fitness'[j] = ColMin(PosInf, fitness', j)
            /\ worst_fitness'[j] = ColMax(NegInf, fitness', j)]_vars

(***************************************************************************)
(* The non-dominated front.  Indices are Python's: row i of a matrix is    *)
(* element i + 1 of the sequence that models it.                           *)
(***************************************************************************)
MaxSel == 4
MaxRejected == 2

Row(obj, i) == obj[i + 1]
Indices(obj) == 0..(Len(obj) - 1)

\* pygmo.pareto_dominance (minimisation): a is no worse than b everywhere
\* and better somewhere.
pareto_dominance(a, b) ==
    /\ \A j \in DOMAIN a : a[j] <= b[j]
    /\ \E j \in DOMAIN a : a[j] < b[j]

\* The total order of the sweep: by the first objective, then by the second.
sweep_less(obj, i, j) ==
    IF Row(obj, i)[1] = Row(obj, j)[1]
    THEN Row(obj, i)[2] < Row(obj, j)[2]
    ELSE Row(obj, i)[1] < Row(obj, j)[1]

RECURSIVE sweep_insert(_, _, _)
sweep_insert(obj, sorted, i) ==
    IF sorted = <<>> THEN <<i>>
    ELSE IF sweep_less(obj, i, Head(sorted)) THEN <<i>> \o sorted
    ELSE <<Head(sorted)>> \o sweep_insert(obj, Tail(sorted), i)

RECURSIVE sweep_sort(_, _)
sweep_sort(obj, n) ==
    IF n = 0 THEN <<>>
    ELSE sweep_insert(obj, sweep_sort(obj, n - 1), n - 1)

RECURSIVE sweep(_, _, _)
sweep(obj, indexes, front) ==
    IF indexes = <<>> THEN front
    ELSE LET i == Head(indexes)
             flag == \E k \in 1..Len(front) :
                         pareto_dominance(Row(obj, front[k]), Row(obj, i))
         IN  sweep(obj, Tail(indexes),
                   IF flag THEN front ELSE Append(front, i))

\* pygmo.non_dominated_front_2d: the indices in the order of the sweep, an
\* index kept when no index kept before it dominates it.
nd2(obj) == sweep(obj, sweep_sort(obj, Len(obj)), <<>>)

\* pygmo.fast_non_dominated_sorting: the domination count dc and the
\* domination list dl of every index, the rank ndr (the number of fronts
\* peeled before the index is free) and the fronts ndf, ndf[1] the
\* non-dominated one.
nds_dc(obj) ==
    [p \in 1..Len(obj) |->
        Cardinality({q \in Indices(obj) :
                        pareto_dominance(Row(obj, q), Row(obj, p - 1))})]

nds_dl(obj) ==
    [p \in 1..Len(obj) |->
        Ascending({q \in Indices(obj) :
                      pareto_dominance(Row(obj, p - 1), Row(obj, q))})]

RECURSIVE nds_peel(_, _)
nds_peel(obj, left) ==
    IF left = {} THEN <<>>
    ELSE LET free == {p \in left :
                         ~ \E q \in left :
                               pareto_dominance(Row(obj, q), Row(obj, p))}
         IN  <<Ascending(free)>> \o nds_peel(obj, left \ free)

nds(obj) ==
    LET ndf == nds_peel(obj, Indices(obj))
    IN  [ndf |-> ndf,
         dl |-> nds_dl(obj),
         dc |-> nds_dc(obj),
         ndr |-> [p \in 1..Len(obj) |->
                     (CHOOSE r \in 1..Len(ndf) :
                         \E k \in 1..Len(ndf[r]) : ndf[r][k] = p - 1) - 1]]

\* What non_dominated returns: the array of indices nd2 gives or the tuple
\* nds gives.
NdArray(idx) == [type |-> "ndarray", idx |-> idx]
NdTuple(t) == [type |-> "tuple", idx |-> t.ndf[1], t |-> t]

Take(rows, idx) == [k \in 1..Len(idx) |-> Row(rows, idx[k])]

\* A variant that takes the general sort whatever the number of objectives.
non_dominated_always_nds(self) ==
    LET non_dom_front == NdTuple(nds(self.objectives))
    IN  [front |-> non_dom_front,
         non_dom |-> Take(self.objectives, non_dom_front.t.ndf[1])]

\* A variant that reports every row as non-dominated.
non_dominated_all_rows(self) ==
    LET non_dom_front == NdArray([k \in 1..Len(self.objectives) |-> k - 1])
    IN  [front |-> non_dom_front, non_dom |-> self.objectives]

\* Population.non_dominated: front is the value returned, non_dom the rows
\* stored in self.non_dom.
non_dominated(self) ==
    LET obj == self.objectives
        num_obj == Len(obj[1])
        non_dom_front == IF num_obj = 2 THEN NdArray(nd2(obj))
                         ELSE NdTuple(nds(obj))
    IN  [front |-> non_dom_front,
         non_dom |-> IF non_dom_front.type = "tuple"
                     THEN Take(self.objectives, non_dom_front.t.ndf[1])
                     ELSE Take(self.objectives, non_dom_front.idx)]

(***************************************************************************)
(* Model selection: EvoNN.select and EvoDN2.select.  A Python value that   *)
(* may be None is a sequence: NoneVal, the empty one, or Some(v).          *)
(***************************************************************************)
NoneVal == <<>>
Some(v) == <<v>>
IsNone(x) == x = <<>>
ValueOf(x) == x[1]

\* A variant of np.argmin that returns the last index of the minimum.
argmin_last(col) ==
    CHOOSE i \in 0..(Len(col) - 1) :
        /\ \A j \in 0..(Len(col) - 1) : col[i + 1] <= col[j + 1]
        /\ \A j \in (i + 1)..(Len(col) - 1) : col[j + 1] # col[i + 1]

\* np.argmin: the first index of the minimum.
argmin(col) ==
    CHOOSE i \in 0..(Len(col) - 1) :
        /\ \A j \in 0..(Len(col) - 1) : col[i + 1] <= col[j + 1]
        /\ \A j \in 0..(i - 1) : col[j + 1] # col[i + 1]

Column(rows, j) == [i \in 1..Len(rows) |-> rows[i][j]]

\* A variant that counts the nonzero weights of every row, the bias row too.
calculate_complexity_with_bias(w_matrix) ==
    Cardinality({p \in (1..Len(w_matrix)) \X (1..Len(w_matrix[1])) :
                    w_matrix[p[1]][p[2]] # 0})

\* EvoNN.calculate_complexity: np.count_nonzero(w_matrix[1:, :]), the
\* nonzero weights below the bias row (row 1 here).
calculate_complexity(w_matrix) ==
    Cardinality({p \in (2..Len(w_matrix)) \X (1..Len(w_matrix[1])) :
                    w_matrix[p[1]][p[2]] # 0})

\* 1000 * ln(x), rounded, for the values rss / num_of_samples takes here.
Ln1000 == <<0, 693, 1099>>

\* A quotient num / den with den > 0, and its order.
Quot(num, den) == IF den < 0 THEN [num |-> -num, den |-> -den]
                  ELSE [num |-> num, den |-> den]
QuotLess(a, b) == a.num * b.den < b.num * a.den

\* A variant that leaves the small-sample correction out: AIC, not AICc.
information_criterion_uncorrected(decision_variables, num_of_samples) ==
    LET k == calculate_complexity(Models[decision_variables].w)
             + Models[decision_variables].w2_nonzero
        aic == 2000 * k
               + num_of_samples * Ln1000[Models[decision_variables].mean_rss]
    IN  [raised |-> FALSE, aicc |-> Quot(aic, 1), k |-> k]

\* EvoNN.information_criterion, times 1000: aic + 2k(k + 1) / (n - k - 1),
\* a division of Python ints that raises ZeroDivisionError at n - k - 1 = 0.
information_criterion(decision_variables, num_of_samples) ==
    LET k == calculate_complexity(Models[decision_variables].w)
             + Models[decision_variables].w2_nonzero
        aic == 2000 * k
               + num_of_samples * Ln1000[Models[decision_variables].mean_rss]
        d == num_of_samples - k - 1
    IN  IF d = 0 THEN Raised("ZeroDivisionError")
        ELSE [raised |-> FALSE,
              aicc |-> Quot(aic * d + 2000 * k * (k + 1), d), k |-> k]

\* The order of the tuples (info_c, i) that info_c_rank.sort() sorts by.
rank_less(a, b) ==
    \/ QuotLess(a[1], b[1])
    \/ (~ QuotLess(b[1], a[1]) /\ a[2] < b[2])

RECURSIVE rank_insert(_, _)
rank_insert(sorted, t) ==
    IF sorted = <<>> THEN <<t>>
    ELSE IF rank_less(t, Head(sorted)) THEN <<t>> \o sorted
    ELSE <<Head(sorted)>> \o rank_insert(Tail(sorted), t)

RECURSIVE rank_sort(_)
rank_sort(info_c_rank) ==
    IF info_c_rank = <<>> THEN <<>>
    ELSE rank_insert(rank_sort(Tail(info_c_rank)), Head(info_c_rank))

\* The loop over non_dom_front: the tuples appended so far, or the exception
\* information_criterion raised.
RECURSIVE rank_loop(_, _, _, _)
rank_loop(pop, idx, num_of_samples, info_c_rank) ==
    IF idx = <<>> THEN [raised |-> FALSE, info_c_rank |-> info_c_rank]
    ELSE LET i == Head(idx)
             info_c == information_criterion(Row(pop.individuals, i),
                                             num_of_samples)
         IN  IF info_c.raised THEN info_c
             ELSE rank_loop(pop, Tail(idx), num_of_samples,
                            Append(info_c_rank, <<info_c.aicc, i>>))

\* What a select call ends with: the population as it leaves it, the model
\* and fitness returned and the index they were read at, or the exception.
Selected(pop, model_idx, model, fit) ==
    [pop |-> pop, model_idx |-> model_idx, model |-> model,
     fitness |-> fit, exc |-> "none"]
SelectRaised(pop, exc) ==
    [pop |-> pop, model_idx |-> NoneVal, model |-> NoneVal,
     fitness |-> NoneVal, exc |-> exc]

\* EvoNN.select: no branch for "manual", so model stays None.
EvoNN_select(pop, non_dom_front, criterion, num_of_samples) ==
    IF criterion = "min_error"
    THEN LET lowest_error == argmin(Column(pop.objectives, 1))
         IN  Selected(pop, Some(lowest_error),
                      Some(Row(pop.individuals, lowest_error)), NoneVal)
    ELSE IF criterion = "akaike_corrected"
    THEN LET r == rank_loop(pop, non_dom_front.idx, num_of_samples, <<>>)
         IN  IF r.raised THEN SelectRaised(pop, r.exc)
             ELSE LET info_c_rank == rank_sort(r.info_c_rank)
                  IN  Selected(pop, Some(info_c_rank[1][2]),
                               Some(Row(pop.individuals, info_c_rank[1][2])),
                               NoneVal)
    ELSE Selected(pop, NoneVal, NoneVal, NoneVal)

\* EvoDN2.select, the branches that return without asking: min_error, and
\* any selection that is neither min_error nor manual.
EvoDN2_select(pop, non_dom_front, selection) ==
    IF selection = "min_error"
    THEN LET lowest_error == argmin(Column(pop.objectives, 1))
         IN  Selected(pop, Some(lowest_error),
                      Some(Row(pop.individuals, lowest_error)),
                      Some(Row(pop.fitness, lowest_error)))
    ELSE Selected(pop, NoneVal, NoneVal, NoneVal)

\* A variant in which hover is a view of the objectives, so that the label
\* is inserted into the rows of the population.
hover_labels_in_place(pop, non_dom_front) ==
    LET labelled == [i \in 1..Len(pop.objectives) |->
                        IF \E k \in 1..Len(non_dom_front.idx) :
                               non_dom_front.idx[k] = i - 1
                        THEN <<i - 1>> \o pop.objectives[i]
                        ELSE pop.objectives[i]]
    IN  [pop |-> [pop EXCEPT !.objectives = labelled],
         hover |-> Take(labelled, non_dom_front.idx)]

\* hover = pop.objectives[non_dom_front].tolist(), then the label of the
\* model (here its number) inserted at the head of every row of hover.
hover_labels(pop, non_dom_front) ==
    LET hover == Take(pop.objectives, non_dom_front.idx)
    IN  [pop |-> pop,
         hover |-> [k \in 1..Len(hover) |->
                       <<non_dom_front.idx[k]>> \o hover[k]]]

\* int(usr_input) for a string given as its characters: blanks around it are
\* dropped, a sign may lead, and the rest must be decimal digits.
Digits == <<"0", "1", "2", "3", "4", "5", "6", "7", "8", "9">>
IsDigit(c) == \E d \in 1..Len(Digits) : Digits[d] = c
DigitVal(c) == (CHOOSE d \in 1..Len(Digits) : Digits[d] = c) - 1

RECURSIVE lstrip(_)
lstrip(str) ==
    IF str # <<>> /\ Head(str) = " " THEN lstrip(Tail(str)) ELSE str

RECURSIVE rstrip(_)
rstrip(str) ==
    IF str # <<>> /\ str[Len(str)] = " "
    THEN rstrip(SubSeq(str, 1, Len(str) - 1)) ELSE str

RECURSIVE digits_value(_, _)
digits_value(str, acc) ==
    IF str = <<>> THEN acc
    ELSE digits_value(Tail(str), 10 * acc + DigitVal(Head(str)))

\* A variant of int that reads every string it cannot parse as 0.
int_lenient(usr_input) ==
    LET str == rstrip(lstrip(usr_input))
        signed == str # <<>> /\ Head(str) \in {"-", "+"}
        body == IF signed THEN Tail(str) ELSE str
    IN  IF body = <<>> \/ \E k \in 1..Len(body) : ~ IsDigit(body[k])
        THEN [raised |-> FALSE, v |-> 0]
        ELSE [raised |-> FALSE,
              v |-> IF signed /\ Head(str) = "-"
                    THEN 0 - digits_value(body, 0) ELSE digits_value(body, 0)]

int(usr_input) ==
    LET str == rstrip(lstrip(usr_input))
        signed == str # <<>> /\ Head(str) \in {"-", "+"}
        body == IF signed THEN Tail(str) ELSE str
    IN  IF body = <<>> \/ \E k \in 1..Len(body) : ~ IsDigit(body[k])
        THEN Raised("ValueError")
        ELSE [raised |-> FALSE,
              v |-> IF signed /\ Head(str) = "-"
                    THEN 0 - digits_value(body, 0) ELSE digits_value(body, 0)]

\* model_idx in non_dom_front, for model_idx an integer or None.
in_front(model_idx, non_dom_front) ==
    /\ ~ IsNone(model_idx)
    /\ \E k \in 1..Len(non_dom_front.idx) : non_dom_front.idx[k] = ValueOf(model_idx)

\* One pass of the body of the while loop: model_idx after it.
manual_loop_body(model_idx, usr_input) ==
    LET parsed == int(usr_input)
    IN  IF parsed.raised THEN model_idx ELSE Some(parsed.v)

(***************************************************************************)
(* The state machine of train's last steps: pop.non_dominated(), then      *)
(* select(pop, non_dom_front, criterion); under EvoDN2's "manual" the call *)
(* waits at input() and goes on with every string typed.                   *)
(*   run.pc: "evolved" (the population is there), "front" (non_dominated   *)
(*   returned), "prompt" (select waits at input()), "returned", "raised";  *)
(*   run.rejected: the inputs the loop has refused.                        *)
(***************************************************************************)
SelectProblems ==
    {[kind |-> "EvoNN", num_of_samples |-> n] : n \in {4, 7, 50}}
    \cup {[kind |-> "EvoDN2", num_of_samples |-> 50]}
Criteria == {"min_error", "akaike_corrected", "manual"}
Inputs ==
    {<<"0">>, <<"1">>, <<"2">>, <<"3">>, <<" ", "1", " ">>, <<"-", "1">>,
     <<"+", "2">>, <<"1", "0">>, <<"a">>, <<"2", ".", "0">>, <<>>}
Populations == SeqsUpTo(DOMAIN Models, MaxSel) \ {<<>>}

\* The inputs refused so far, counted up to MaxRejected.
Rejected(n) == IF n < MaxRejected THEN n + 1 ELSE n

Evolved(p) ==
    [pc |-> "evolved", kind |-> p.kind, num_of_samples |-> p.num_of_samples,
     front |-> [type |-> "none", idx |-> <<>>], non_dom |-> <<>>,
     criterion |-> "", hover |-> <<>>, usr_input |-> <<>>, rejected |-> 0,
     model_idx |-> NoneVal, model |-> NoneVal, fitness |-> NoneVal,
     exc |-> "none"]

StorePop(pop) ==
    /\ individuals' = pop.individuals
    /\ objectives' = pop.objectives
    /\ fitness' = pop.fitness
    /\ constraint_violation' = pop.constraint_violation
    /\ ideal_fitness' = pop.ideal_fitness
    /\ worst_fitness' = pop.worst_fitness
    /\ UNCHANGED problem

InitSelect ==
    /\ problem = [num_of_constraints |-> 0, objs |-> <<1, -1>>]
    /\ \E new_pop \in Populations, p \in SelectProblems :
           LET pop == add(EmptyPopulation, new_pop)
           IN  /\ individuals = pop.individuals
               /\ objectives = pop.objectives
               /\ fitness = pop.fitness
               /\ constraint_violation = pop.constraint_violation
               /\ ideal_fitness = pop.ideal_fitness
               /\ worst_fitness = pop.worst_fitness
               /\ last = [op |-> "add", arg |-> new_pop, mode |-> "",
                          size |-> 0, exc |-> pop.exc]
               /\ run = Evolved(p)

NonDominated ==
    /\ run.pc = "evolved"
    /\ LET r == non_dominated(Self)
       IN  run' = [run EXCEPT !.pc = "front", !.front = r.front,
                              !.non_dom = r.non_dom]
    /\ last' = Call("non_dominated", <<>>, "")
    /\ StorePop(Self)

Return(r, criterion) ==
    /\ run' = [run EXCEPT !.pc = IF r.exc = "none" THEN "returned" ELSE "raised",
                          !.criterion = criterion,
                          !.model_idx = r.model_idx, !.model = r.model,
                          !.fitness = r.fitness, !.exc = r.exc]
    /\ last' = [Call("select", <<>>, criterion) EXCEPT !.exc = r.exc]
    /\ StorePop(r.pop)

SelectEvoNN ==
    \E criterion \in Criteria :
        /\ run.pc = "front"
        /\ run.kind = "EvoNN"
        /\ Return(EvoNN_select(Self, run.front, criterion, run.num_of_samples),
                  criterion)

SelectEvoDN2 ==
    \E selection \in Criteria \ {"manual"} :
        /\ run.pc = "front"
        /\ run.kind = "EvoDN2"
        /\ Return(EvoDN2_select(Self, run.front, selection), selection)

\* EvoDN2.select with "manual", up to the first input().
SelectManual ==
    /\ run.pc = "front"
    /\ run.kind = "EvoDN2"
    /\ LET h == hover_labels(Self, run.front)
       IN  /\ run' = [run EXCEPT !.pc = "prompt", !.criterion = "manual",
                                 !.hover = h.hover]
           /\ StorePop(h.pop)
    /\ last' = Call("select", <<>>, "manual")

\* input() returns usr_input: the rest of the pass of the loop and, when the
\* loop ends, the return of select.
Input ==
    \E usr_input \in Inputs :
        /\ run.pc = "prompt"
        /\ LET model_idx == manual_loop_body(run.model_idx, usr_input)
           IN  run' = IF in_front(model_idx, run.front)
                      THEN [run EXCEPT
                               !.pc = "returned", !.usr_input = usr_input,
                               !.model_idx = model_idx,
                               !.model = Some(Row(individuals, ValueOf(model_idx))),
                               !.fitness = Some(Row(fitness, ValueOf(model_idx)))]
                      ELSE [run EXCEPT !.usr_input = usr_input,
                                       !.rejected = Rejected(@),
                                       !.model_idx = model_idx]
        /\ last' = Call("input", <<>>, "manual")
        /\ StorePop(Self)

NextSelect ==
    NonDominated \/ SelectEvoNN \/ SelectEvoDN2 \/ SelectManual \/ Input

SpecSelect == InitSelect /\ [][NextSelect]_vars

\* input() returns whenever the observer types a line, which the observer
\* keeps doing.
FairSpecSelect == SpecSelect /\ WF_vars(Input)

(***************************************************************************)
(* Properties of the non-dominated front.                                  *)
(***************************************************************************)
SetOf(seq) == {seq[k] : k \in 1..Len(seq)}
FrontReturned == run.pc # "evolved"

\* The indices no other row is weakly better than in both objectives and
\* strictly better than in one.
NotDominated(obj) ==
    {i \in 0..(Len(obj) - 1) :
        ~ \E j \in 0..(Len(obj) - 1) :
              /\ j # i
              /\ obj[j + 1][1] <= obj[i + 1][1]
              /\ obj[j + 1][2] <= obj[i + 1][2]
              /\ (obj[j + 1][1] < obj[i + 1][1] \/ obj[j + 1][2] < obj[i + 1][2])}

ScenarioB == <<<<1, 5>>, <<2, 3>>, <<3, 1>>, <<2, 2>>>>

PopIndices == 0..(Len(individuals) - 1)
Front == SetOf(run.front.idx)
SelectReturned(criterion) ==
    run.pc = "returned" /\ run.criterion = criterion
Error(i) == objectives[i + 1][1]

\* C13: under min_error select returns the genome at the lowest index among
\* the rows of the whole population with the smallest first objective, on
\* the front or not, and EvoDN2.select returns with it the fitness row of
\* that index.
C13_MinErrorOverWholePopulation ==
    SelectReturned("min_error")
    => \E i \in PopIndices :
          /\ \A j \in PopIndices : Error(i) <= Error(j)
          /\ \A j \in PopIndices : Error(j) = Error(i) => i <= j
          /\ run.model_idx = Some(i)
          /\ run.model = Some(individuals[i + 1])
          /\ run.kind = "EvoDN2" => run.fitness = Some(fitness[i + 1])

\* min_error has returned an index that is not on the front, one of
\* several rows with the smallest error.
C13_Witness ==
    /\ SelectReturned("min_error")
    /\ ValueOf(run.model_idx) \notin Front
    /\ \E j \in PopIndices : j # ValueOf(run.model_idx) /\ Error(j) = Error(ValueOf(run.model_idx))

\* k, and AICc = 2k + n ln(RSS / n) + 2k(k + 1) / (n - k - 1) times 1000 as
\* the quotient AiccNum / AiccDen.
K(i) == objectives[i + 1][2] + Models[individuals[i + 1]].w2_nonzero
AiccDen(i) == run.num_of_samples - K(i) - 1
AiccNum(i) ==
    (2000 * K(i) + run.num_of_samples * Ln1000[Models[individuals[i + 1]].mean_rss])
        * AiccDen(i)
    + 2000 * K(i) * (K(i) + 1)
AiccLeq(i, j) ==
    IF (AiccDen(i) > 0) = (AiccDen(j) > 0)
    THEN AiccNum(i) * AiccDen(j) <= AiccNum(j) * AiccDen(i)
    ELSE AiccNum(i) * AiccDen(j) >= AiccNum(j) * AiccDen(i)

SelectEnded(criterion) ==
    run.pc \in {"returned", "raised"} /\ run.criterion = criterion

\* C15: akaike_corrected selection ends with DegenerateModelError when a
\* candidate of the front has n - k - 1 = 0 or when n - k - 1 <= 0 for all
\* of them, and a champion it returns has n - k - 1 > 0.
C15_DegenerateModelError ==
    (run.kind = "EvoNN" /\ SelectEnded("akaike_corrected"))
    => /\ ((\E j \in Front : AiccDen(j) = 0) \/ (\A j \in Front : AiccDen(j) <= 0))
          => run.exc = "DegenerateModelError"
       /\ run.pc = "returned" => AiccDen(ValueOf(run.model_idx)) > 0

\* C16: select, under every policy and up to its return, leaves individuals,
\* objectives, fitness, constraint_violation, ideal_fitness and
\* worst_fitness as they were.
C16_SelectLeavesPopulation ==
    [][(last.op \in {"select", "input"})'
       => UNCHANGED <<individuals, objectives, fitness, constraint_violation,
                      ideal_fitness, worst_fitness>>]_vars

\* The manual policy has built its hover labels and returned a model.
C16_Witness == SelectReturned("manual") /\ run.hover # <<>>

\* The integers the inputs spell.
Spelt ==
    {<<<<"0">>, 0>>, <<<<"1">>, 1>>, <<<<"2">>, 2>>, <<<<"3">>, 3>>,
     <<<<" ", "1", " ">>, 1>>, <<<<"-", "1">>, -1>>, <<<<"+", "2">>, 2>>,
     <<<<"1", "0">>, 10>>}
SpeltOnFront(usr_input) == {t[2] : t \in {u \in Spelt : u[1] = usr_input}} \cap Front

\* C17: while select waits for input, an input that spells an index of the
\* front makes it return the genome and the fitness row at that index, and
\* any other input makes it ask again, without returning or raising.
C17_ManualReturnsOnlyOnFrontIndex ==
    [][(run.pc = "prompt" /\ last'.op = "input")
       => LET chosen == SpeltOnFront(run'.usr_input)
          IN  IF chosen # {}
              THEN /\ run'.pc = "returned"
                   /\ \A i \in chosen :
                         /\ run'.model = Some(individuals[i + 1])
                         /\ run'.fitness = Some(fitness[i + 1])
              ELSE /\ run'.pc = "prompt"
                   /\ run'.exc = "none"
                   /\ IsNone(run'.model)]_vars

\* select has returned on an index of the front after refusing inputs.
C17_Witness ==
    /\ SelectReturned("manual")
    /\ run.rejected = MaxRejected
    /\ run.usr_input = <<" ", "1", " ">>

\* C18: a select that waits for input always returns or fails in the end,
\* whatever is typed.
C18_ManualSelectionEnds ==
    (run.pc = "prompt") ~> (run.pc \in {"returned", "raised"})

\* C19: EvoNN.select returns, for each of min_error, akaike_corrected and
\* manual, a genome of the population, under manual one of the front.
C19_EveryCriterionYieldsModel ==
    (run.kind = "EvoNN" /\ run.pc = "returned")
    => /\ ~ IsNone(run.model)
       /\ \E i \in PopIndices : run.model = Some(individuals[i + 1])
       /\ run.criterion = "manual" => (~ IsNone(run.model_idx) /\ ValueOf(run.model_idx) \in Front)

(***************************************************************************)
(* Population.evolve.  The strategy ea is an object of a class derived     *)
(* from BaseEA: its hooks _run_interruption and _next_iteration are called *)
(* with the population, change it through add and delete_or_keep, and may  *)
(* come to the point where the strategy wants no further iteration         *)
(* (run.signalled).  evolve is followed from hook to hook:                 *)
(*   run.pc: "created", "run_interruption" and "next_iteration" (the hook  *)
(*   evolve calls next), "done"; run.i: the iteration; run.hooks: the      *)
(*   hooks called so far; run.EA: the strategy evolve was given;           *)
(*   run.entry: the genomes at the call of evolve; "raised": an exception  *)
(*   (run.exc) has left evolve.                                            *)
(***************************************************************************)
MaxIterations == 2

\* What evolve may be given as EA: nothing (the default None), a strategy
\* with both hooks, or a class that lacks one of them.
Strategies == {"None", "BaseEA", "no_run_interruption", "no_next_iteration"}

Created ==
    [pc |-> "created", EA |-> "None", iterations |-> 0, i |-> 0,
     hooks |-> <<>>, signalled |-> FALSE, entry |-> <<>>, exc |-> "none"]

\* evolve ends with the exception exc.
EvolveRaised(exc) == [run EXCEPT !.pc = "raised", !.exc = exc]

InitEvolve ==
    /\ problem = [num_of_constraints |-> 0, objs |-> <<1, -1>>]
    /\ \E new_pop \in SeqsUpTo(DOMAIN ObjTable, MaxBatch) :
           LET pop == add(EmptyPopulation, new_pop)
           IN  /\ individuals = pop.individuals
               /\ objectives = pop.objectives
               /\ fitness = pop.fitness
               /\ constraint_violation = pop.constraint_violation
               /\ ideal_fitness = pop.ideal_fitness
               /\ worst_fitness = pop.worst_fitness
               /\ last = [op |-> "add", arg |-> new_pop, mode |-> "",
                          size |-> 0, exc |-> pop.exc]
    /\ run = Created

\* What a hook of the strategy does to the population.
HookEffects ==
    {add(Self, new_pop) :
         new_pop \in {b \in SeqsUpTo(DOMAIN ObjTable, 1) :
                         Len(individuals) + Len(b) <= MaxPop}}
    \cup (IF individuals = <<>> THEN {}
          ELSE {delete_or_keep(Self, <<0>>, "delete")})

\* for i in range(0, iterations): the hook evolve calls when i iterations
\* are over, or the end of the loop.
loop_next(i, iterations, signalled) ==
    IF i < iterations THEN "run_interruption" ELSE "done"

\* ea = EA(self, **kwargs); iterations = ea.params["iterations"], and the
\* for loop up to its first hook.  Calling None raises TypeError.
evolve_entry(EA, iterations) ==
    IF EA = "None"
    THEN [EvolveRaised("TypeError") EXCEPT !.EA = EA, !.entry = individuals]
    ELSE [run EXCEPT !.EA = EA, !.entry = individuals,
                     !.iterations = iterations,
                     !.pc = loop_next(0, iterations, run.signalled)]

Evolve ==
    \E EA \in Strategies, iterations \in 0..MaxIterations :
        /\ run.pc = "created"
        /\ run' = evolve_entry(EA, iterations)
        /\ last' = [Call("evolve", <<>>, "") EXCEPT !.exc = run'.exc]
        /\ StorePop(Self)

\* ea._run_interruption(self): AttributeError when ea has no such method.
RunInterruption ==
    \E pop \in HookEffects, signalled \in {run.signalled, TRUE} :
        /\ run.pc = "run_interruption"
        /\ IF run.EA = "no_run_interruption"
           THEN /\ run' = EvolveRaised("AttributeError")
                /\ StorePop(Self)
           ELSE /\ run' = [run EXCEPT !.pc = "next_iteration",
                                      !.hooks = Append(@, "_run_interruption"),
                                      !.signalled = signalled]
                /\ StorePop(pop)
        /\ last' = [Call("_run_interruption", <<>>, "") EXCEPT !.exc = run'.exc]

\* ea._next_iteration(self), AttributeError when ea has no such method, and
\* the step of the for loop after it.
NextIteration ==
    \E signalled \in {run.signalled, TRUE} :
        /\ run.pc = "next_iteration"
        /\ run' = IF run.EA = "no_next_iteration"
                  THEN EvolveRaised("AttributeError")
                  ELSE [run EXCEPT
                           !.pc = loop_next(run.i + 1, run.iterations, signalled),
                           !.i = run.i + 1,
                           !.hooks = Append(@, "_next_iteration"),
                           !.signalled = signalled]
        /\ last' = [Call("_next_iteration", <<>>, "") EXCEPT !.exc = run'.exc]
        /\ StorePop(Self)

NextEvolve == Evolve \/ RunInterruption \/ NextIteration

SpecEvolve == InitEvolve /\ [][NextEvolve]_vars

(***************************************************************************)
(* Properties of evolve.                                                   *)
(***************************************************************************)
HookCalled == Len(run.hooks') = Len(run.hooks) + 1
IterationBegins == HookCalled /\ Len(run.hooks) = 2 * run.i

\* C20: evolve calls the hooks of the strategy once per iteration and in
\* order, _run_interruption before _next_iteration, begins no iteration once
\* the configured number of iterations is over or the strategy has signalled
\* that it wants to stop, and is done when either is the case.
C20_EvolveStopsAtCountOrSignal ==
    [][/\ HookCalled
          => run.hooks' = Append(run.hooks,
                                 IF Len(run.hooks) = 2 * run.i
                                 THEN "_run_interruption"
                                 ELSE "_next_iteration")
       /\ IterationBegins => (run.i < run.iterations /\ ~ run.signalled)
       /\ (run.pc = "done")' => (run.i = run.iterations \/ run.signalled)']_vars

Unusable == {"None", "no_run_interruption", "no_next_iteration"}

\* C21: an evolve given no strategy, or one that lacks a hook, does not
\* complete: it fails with ConfigurationError, and the population is then
\* as it was when evolve was called.
C21_UnusableStrategyIsConfigurationError ==
    (run.pc \notin {"created"} /\ run.EA \in Unusable)
    => /\ run.pc # "done"
       /\ run.pc = "raised"
          => (run.exc = "ConfigurationError" /\ individuals = run.entry)

(***************************************************************************)
(* The complexity objective.  A weight matrix is the sequence of its rows, *)
(* row 1 the bias row (Python's row 0); the flat genome of EvoNN is one    *)
(* matrix, the modular genome of EvoDN2 a sequence of subnets, a subnet a  *)
(* sequence of layers, the rows of a layer below the bias row as many as   *)
(* the layer before it has columns.                                        *)
(***************************************************************************)
MaxLayers == 2    \* layers of a subnet at most
MaxNonzero == 2   \* nonzero weights below the bias rows of a drawn genome

Widths == {1, 2}
WeightValues == {1, -2}
BiasValues == {0, 1}

\* The shape of a subnet: the number of its inputs, then the number of nodes
\* of each of its layers, the layers of a subnet being of one width.
Shapes ==
    UNION {{[l \in 1..(L + 1) |-> IF l = 1 THEN w ELSE n] :
               w \in Widths, n \in Widths} :
              L \in 1..MaxLayers}
Positions(shape) ==
    UNION {{<<l, i, j>> : i \in 2..(1 + shape[l]), j \in 1..shape[l + 1]} :
              l \in 1..(Len(shape) - 1)}

\* The subnet of the given shape whose weights below the bias rows are val
\* on its domain and 0 elsewhere, every bias being bias.
SubnetOf(shape, val, bias) ==
    [l \in 1..(Len(shape) - 1) |->
        [i \in 1..(1 + shape[l]) |->
            [j \in 1..shape[l + 1] |->
                IF i = 1 THEN bias
                ELSE IF <<l, i, j>> \in DOMAIN val THEN val[<<l, i, j>>]
                ELSE 0]]]

Subnets ==
    UNION {UNION {{SubnetOf(shape, val, 1) : val \in [S -> WeightValues]} :
                     S \in {T \in SUBSET Positions(shape) :
                               Cardinality(T) <= MaxNonzero}} :
              shape \in Shapes}

\* A second subnet some genomes have: one layer, one input, one node, its
\* weight zero.
Companion == << << <<1>>, <<0>> >> >>

FlatGenomes == {subnet[1] : subnet \in {t \in Subnets : Len(t) = 1}}
ModularGenomes == {<<subnet>> \o rest : subnet \in Subnets, rest \in {<<>>, <<Companion>>}}

Abs(x) == IF x < 0 THEN 0 - x ELSE x

RECURSIVE Sum(_)
Sum(seq) == IF seq = <<>> THEN 0 ELSE Head(seq) + Sum(Tail(seq))

\* np.sum of a matrix and np.abs(layer[1:, :]).
np_sum(m) == Sum([i \in 1..Len(m) |-> Sum(m[i])])
abs_below_bias(layer) ==
    [i \in 1..(Len(layer) - 1) |->
        [j \in 1..Len(layer[1]) |-> Abs(layer[i + 1][j])]]

\* np.dot(a, b): the matrix product, and b itself for a the scalar 1 the
\* loop starts from (written as the 1 x 1 matrix, for which b has one row
\* and the product is b as well).
np_dot(a, b) ==
    IF a = <<<<1>>>> THEN b
    ELSE [i \in 1..Len(a) |->
             [j \in 1..Len(b[1]) |->
                 Sum([k \in 1..Len(b) |-> a[i][k] * b[k][j]])]]

\* A variant of the loop over the layers that multiplies the sums of the
\* layers.
RECURSIVE subnet_complexity_product_of_sums(_, _)
subnet_complexity_product_of_sums(subnet, subnet_complexity) ==
    IF subnet = <<>> THEN subnet_complexity
    ELSE subnet_complexity_product_of_sums(
             Tail(subnet),
             <<<<np_sum(subnet_complexity) * np_sum(abs_below_bias(Head(subnet)))>>>>)

\* A variant of the loop over the layers without np.abs.
RECURSIVE subnet_complexity_signed(_, _)
subnet_complexity_signed(subnet, subnet_complexity) ==
    IF subnet = <<>> THEN subnet_complexity
    ELSE subnet_complexity_signed(
             Tail(subnet),
             np_dot(subnet_complexity,
                    [i \in 1..(Len(Head(subnet)) - 1) |-> Head(subnet)[i + 1]]))

\* for layer in subnet: subnet_complexity = np.dot(subnet_complexity,
\* np.abs(layer[1:, :])), from subnet_complexity = 1.
RECURSIVE subnet_complexity_loop(_, _)
subnet_complexity_loop(subnet, subnet_complexity) ==
    IF subnet = <<>> THEN subnet_complexity
    ELSE subnet_complexity_loop(
             Tail(subnet),
             np_dot(subnet_complexity, abs_below_bias(Head(subnet))))

\* The complexity EvoDN2.activation returns: network_complexity holds
\* np.sum(subnet_complexity) of every subnet, complexity is its np.sum.
activation_complexity(decision_variables) ==
    LET network_complexity ==
            [i \in 1..Len(decision_variables) |->
                np_sum(subnet_complexity_loop(decision_variables[i], <<<<1>>>>))]
    IN  Sum(network_complexity)

(***************************************************************************)
(* The state machine of the complexity objective: a genome is drawn, its   *)
(* complexity is computed (calculate_complexity for the flat encoding,     *)
(* activation for the modular one), and it is computed again after a zero  *)
(* weight below a bias row was set to a nonzero value or after the biases  *)
(* were changed.                                                           *)
(*   run.pc: "drawn", "evaluated".                                         *)
(***************************************************************************)
Drawn(encoding, genome) ==
    [pc |-> "drawn", encoding |-> encoding, genome |-> genome,
     complexity |-> NoneVal]

InitComplexity ==
    /\ problem = [num_of_constraints |-> 0, objs |-> <<1, -1>>]
    /\ individuals = EmptyPopulation.individuals
    /\ objectives = EmptyPopulation.objectives
    /\ fitness = EmptyPopulation.fitness
    /\ constraint_violation = EmptyPopulation.constraint_violation
    /\ ideal_fitness = EmptyPopulation.ideal_fitness
    /\ worst_fitness = EmptyPopulation.worst_fitness
    /\ last = [op |-> "__init__", arg |-> <<>>, mode |-> "", size |-> 0,
               exc |-> "none"]
    /\ \/ \E w_matrix \in FlatGenomes : run = Drawn("flat", w_matrix)
       \/ \E decision_variables \in ModularGenomes :
              run = Drawn("modular", decision_variables)

\* The genome as a sequence of subnets, whatever the encoding.
AsSubnets(encoding, genome) ==
    IF encoding = "flat" THEN <<<<genome>>>> ELSE genome
FromSubnets(encoding, subnets) ==
    IF encoding = "flat" THEN subnets[1][1] ELSE subnets

complexity_objective(encoding, genome) ==
    IF encoding = "flat" THEN calculate_complexity(genome)
    ELSE activation_complexity(genome)

\* The zero weights below the bias rows and the weights altogether that are
\* not zero there.
WeightPositions(subnets) ==
    UNION {UNION {{<<n, l, i, j>> : i \in 2..Len(subnets[n][l]),
                                   j \in 1..Len(subnets[n][l][1])} :
                     l \in 1..Len(subnets[n])} :
              n \in 1..Len(subnets)}
ZeroPositions(subnets) ==
    {p \in WeightPositions(subnets) : subnets[p[1]][p[2]][p[3]][p[4]] = 0}
SetWeightAt(subnets, p, v) ==
    [subnets EXCEPT ![p[1]][p[2]][p[3]][p[4]] = v]
SetBiases(subnets, b) ==
    [n \in 1..Len(subnets) |->
        [l \in 1..Len(subnets[n]) |->
            [subnets[n][l] EXCEPT ![1] = [j \in 1..Len(@) |-> b]]]]

StoreComplexity(op, genome) ==
    /\ run' = [run EXCEPT !.pc = "evaluated", !.genome = genome,
                          !.complexity =
                              Some(complexity_objective(run.encoding, genome))]
    /\ last' = Call(op, <<>>, run.encoding)
    /\ StorePop(Self)

\* complexity = self.calculate_complexity(decision_variables)
CalculateComplexity ==
    /\ run.pc = "drawn"
    /\ run.encoding = "flat"
    /\ StoreComplexity("calculate_complexity", run.genome)

\* non_linear_layer, complexity = self.activation(decision_variables)
Activation ==
    /\ run.pc = "drawn"
    /\ run.encoding = "modular"
    /\ StoreComplexity("activation", run.genome)

\* A zero weight below a bias row becomes v, and the genome is evaluated
\* again.
SetWeight ==
    \E p \in ZeroPositions(AsSubnets(run.encoding, run.genome)),
       v \in WeightValues :
        /\ run.pc = "evaluated"
        /\ Cardinality(WeightPositions(AsSubnets(run.encoding, run.genome))
                       \ ZeroPositions(AsSubnets(run.encoding, run.genome)))
           < MaxNonzero
        /\ StoreComplexity(
               "set_weight",
               FromSubnets(run.encoding,
                           SetWeightAt(AsSubnets(run.encoding, run.genome), p, v)))

\* Every bias becomes b, and the genome is evaluated again.
SetBias ==
    \E b \in BiasValues :
        /\ run.pc = "evaluated"
        /\ StoreComplexity(
               "set_bias",
               FromSubnets(run.encoding,
                           SetBiases(AsSubnets(run.encoding, run.genome), b)))

NextComplexity == CalculateComplexity \/ Activation \/ SetWeight \/ SetBias

SpecComplexity == InitComplexity /\ [][NextComplexity]_vars

(***************************************************************************)
(* Properties of the complexity objective.                                 *)
(***************************************************************************)
Evaluated(encoding) == run.pc = "evaluated" /\ run.encoding = encoding

\* The number of nonzero entries of the rows of w below row 1.
NonzeroBelowBias(w) ==
    Sum([i \in 1..(Len(w) - 1) |->
            Sum([j \in 1..Len(w[1]) |-> IF w[i + 1][j] = 0 THEN 0 ELSE 1])])

\* C24: the complexity of a flat genome is the number of nonzero entries of
\* its weight matrix below the bias row, hence between 0 and (rows - 1) *
\* columns, and a change of the bias row leaves it as it was.
C24_FlatComplexityCountsNonBias ==
    [][Evaluated("flat")'
       => /\ run'.complexity = Some(NonzeroBelowBias(run'.genome))
          /\ ValueOf(run'.complexity) \in
                 0..((Len(run'.genome) - 1) * Len(run'.genome[1]))
          /\ (last.op = "set_bias")' => run'.complexity = run.complexity]_vars

\* The bias row of a flat genome with nonzero weights has gone from zero to
\* nonzero.
C24_Witness ==
    /\ Evaluated("flat")
    /\ last.op = "set_bias"
    /\ ValueOf(run.complexity) = MaxNonzero
    /\ ValueOf(run.complexity) < (Len(run.genome) - 1) * Len(run.genome[1])
    /\ \A j \in 1..Len(run.genome[1]) : run.genome[1][j] # 0

\* C25: setting a zero weight below a bias row to a nonzero value, all else
\* as it was, does not lower the complexity, in either encoding.
C25_ComplexityMonotone ==
    [][(last.op = "set_weight")'
       => ValueOf(run'.complexity) >= ValueOf(run.complexity)]_vars

\* A weight of a modular genome of two layers was set to a negative value.
C25_Witness ==
    /\ Evaluated("modular")
    /\ last.op = "set_weight"
    /\ Len(run.genome[1]) = 2
    /\ ValueOf(run.complexity) > 0
    /\ \E p \in WeightPositions(run.genome) :
           run.genome[p[1]][p[2]][p[3]][p[4]] < 0

\* The sum of the absolute weights of a layer below its bias row, and the
\* product of these sums over the layers of a subnet.
LayerSum(layer) ==
    Sum([i \in 1..(Len(layer) - 1) |->
            Sum([j \in 1..Len(layer[1]) |-> Abs(layer[i + 1][j])])])

RECURSIVE ProductOfSums(_)
ProductOfSums(subnet) ==
    IF subnet = <<>> THEN 1
    ELSE LayerSum(Head(subnet)) * ProductOfSums(Tail(subnet))

\* C27 as stated: the complexity of a modular genome is the sum, over its
\* subnets, of the product over the layers of the sum of the absolute
\* weights of the layer below its bias row.
C27_ProductOfLayerSums ==
    Evaluated("modular")
    => run.complexity =
           Some(Sum([n \in 1..Len(run.genome) |-> ProductOfSums(run.genome[n])]))

\* The paths through a subnet, one node of every layer from the inputs on,
\* and the product of the absolute weights along a path.
WidthAt(subnet, l) ==
    IF l = 1 THEN Len(subnet[1]) - 1 ELSE Len(subnet[l - 1][1])

\* The sum, over the paths that leave node i of layer l, of the product of
\* the absolute weights along the path; the paths are followed one layer
\* after the other, to every node of the next layer.
RECURSIVE PathsFrom(_, _, _)
PathsFrom(subnet, l, i) ==
    IF l > Len(subnet) THEN 1
    ELSE Sum([j \in 1..WidthAt(subnet, l + 1) |->
                 Abs(subnet[l][1 + i][j]) * PathsFrom(subnet, l + 1, j)])
SumOfPaths(subnet) ==
    Sum([i \in 1..WidthAt(subnet, 1) |-> PathsFrom(subnet, 1, i)])

\* C27: the complexity of a modular genome is the sum, over its subnets and
\* over the paths from an input of the subnet to a node of its last layer,
\* of the product of the absolute weights along the path (the sum of the
\* entries of the product of the matrices of absolute weights below the
\* bias rows); the biases do not contribute.
C27_SumOverPaths ==
    [][Evaluated("modular")'
       => /\ run'.complexity =
                 Some(Sum([n \in 1..Len(run'.genome) |->
                              SumOfPaths(run'.genome[n])]))
          /\ (last.op = "set_bias")' => run'.complexity = run.complexity]_vars

\* A genome of two subnets, the first of two layers, whose complexity is
\* not the product of the sums of its layers.
C27_Witness ==
    /\ Evaluated("modular")
    /\ Len(run.genome) = 2
    /\ Len(run.genome[1]) = 2
    /\ ValueOf(run.complexity)
           < Sum([n \in 1..Len(run.genome) |-> ProductOfSums(run.genome[n])])

(***************************************************************************)
(* The fitness matrix against the signed objectives, in the population of  *)
(* Spec.                                                                   *)
(***************************************************************************)

\* C28: after any sequence of add and delete_or_keep calls every fitness row
\* is the objectives row of the same index multiplied, objective by
\* objective, by the sign the problem gives the objective.
C28_FitnessIsSignedObjectives ==
    /\ Len(fitness) = Len(objectives)
    /\ \A i \in 1..Len(objectives) :
           \A j \in 1..num_of_objectives :
               fitness[i][j] = objectives[i][j] * problem.objs[j]

(***************************************************************************)
(* The cached front: Population.non_dominated stores the rows of the front *)
(* in self.non_dom, and Population.hypervolume reads self.non_dom.         *)
(*   run.pc: "population".                                                 *)
(*   run.non_dom: NoneVal while self.non_dom is the 0 of __init__, else    *)
(*                Some(rows).                                              *)
(*   run.used: the rows hypervolume handed to hv; run.hyp: its result.     *)
(***************************************************************************)
MaxFront == 2   \* genomes of the population at most
MaxRef == 6     \* the largest coordinate of a reference point

FrontGenomes == {"m0", "m1", "m3"}

RefPoints ==
    {[scalar |-> TRUE, v |-> <<MaxRef>>], [scalar |-> FALSE, v |-> <<3, MaxRef>>]}
IndexPairs(n) == {<<k>> : k \in 0..(n - 1)}

\* pygmo's hypervolume of rows of two objectives with integer coordinates
\* against ref_point: the area dominated by a row and bounded by the
\* reference point, counted in unit cells.
hv_compute(non_dom, ref_point) ==
    Cardinality({c \in (0..(ref_point[1] - 1)) \X (0..(ref_point[2] - 1)) :
                    \E k \in 1..Len(non_dom) :
                        non_dom[k][1] <= c[1] /\ non_dom[k][2] <= c[2]})

\* non_dom[np.all(non_dom < ref_point, axis=1), :]
RECURSIVE below_ref_point(_, _)
below_ref_point(non_dom, ref_point) ==
    IF non_dom = <<>> THEN <<>>
    ELSE (IF \A j \in 1..Len(ref_point) : Head(non_dom)[j] < ref_point[j]
          THEN <<Head(non_dom)>> ELSE <<>>)
         \o below_ref_point(Tail(non_dom), ref_point)

\* A variant that computes the front of the objectives at the call.
hypervolume_on_demand(self, cached, ref) ==
    LET non_dom == non_dominated(self).non_dom
        ref_point == IF ref.scalar
                     THEN [j \in 1..Len(non_dom[1]) |-> ref.v[1]]
                     ELSE ref.v
        rows == below_ref_point(non_dom, ref_point)
    IN  IF rows = <<>>
        THEN [exc |-> "ValueError", used |-> rows, hyp |-> NoneVal]
        ELSE [exc |-> "none", used |-> rows,
              hyp |-> Some(hv_compute(rows, ref_point))]

\* Population.hypervolume; cached is self.non_dom.  While it is the int 0,
\* non_dom.shape raises AttributeError for a scalar ref_point, and np.all
\* over axis 1 of the comparison with a sequence raises AxisError; hv of no
\* rows raises ValueError.
hypervolume(self, cached, ref) ==
    IF IsNone(cached)
    THEN [exc |-> IF ref.scalar THEN "AttributeError" ELSE "AxisError",
          used |-> <<>>, hyp |-> NoneVal]
    ELSE LET non_dom == ValueOf(cached)
             ref_point == IF ref.scalar
                          THEN [j \in 1..Len(non_dom[1]) |-> ref.v[1]]
                          ELSE ref.v
             rows == below_ref_point(non_dom, ref_point)
         IN  IF rows = <<>>
             THEN [exc |-> "ValueError", used |-> rows, hyp |-> NoneVal]
             ELSE [exc |-> "none", used |-> rows,
                   hyp |-> Some(hv_compute(rows, ref_point))]

InitFront ==
    /\ problem = [num_of_constraints |-> 0, objs |-> <<1, -1>>]
    /\ individuals = EmptyPopulation.individuals
    /\ objectives = EmptyPopulation.objectives
    /\ fitness = EmptyPopulation.fitness
    /\ constraint_violation = EmptyPopulation.constraint_violation
    /\ ideal_fitness = EmptyPopulation.ideal_fitness
    /\ worst_fitness = EmptyPopulation.worst_fitness
    /\ last = [op |-> "__init__", arg |-> <<>>, mode |-> "", size |-> 0,
               exc |-> "none"]
    /\ run = [pc |-> "population", non_dom |-> NoneVal, used |-> <<>>,
              hyp |-> NoneVal]

StoreFront(s, call) ==
    /\ last' = [call EXCEPT !.exc = s.exc]
    /\ StorePop(s)

\* pop.add([g])
FrontAdd ==
    \E g \in FrontGenomes :
        /\ Len(individuals) < MaxFront
        /\ StoreFront(add(Self, <<g>>), Call("add", <<>>, ""))
        /\ UNCHANGED run

\* pop.delete_or_keep([k], mode)
FrontDeleteOrKeep ==
    \E indices \in IndexPairs(Len(individuals)), mode \in Modes :
        /\ StoreFront(delete_or_keep(Self, indices, mode),
                      Call("delete_or_keep", <<>>, mode))
        /\ UNCHANGED run

\* pop.non_dominated(), on a population that has rows.
FrontNonDominated ==
    /\ Len(objectives) > 0
    /\ run' = [run EXCEPT !.non_dom = Some(non_dominated(Self).non_dom)]
    /\ StoreFront(Self, Call("non_dominated", <<>>, ""))

\* pop.hypervolume(ref_point)
Hypervolume ==
    \E ref \in RefPoints :
        /\ Len(objectives) > 0
        /\ LET r == hypervolume(Self, run.non_dom, ref)
           IN  /\ run' = [run EXCEPT !.used = r.used, !.hyp = r.hyp]
               /\ StoreFront([Self EXCEPT !.exc = r.exc],
                             Call("hypervolume", ref.v,
                                  IF ref.scalar THEN "scalar" ELSE "sequence"))

NextFront == FrontAdd \/ FrontDeleteOrKeep \/ FrontNonDominated \/ Hypervolume

SpecFront == InitFront /\ [][NextFront]_vars

\* C29: a hypervolume that returns has worked on the front of the objectives
\* matrix as it is at the call, whatever add and delete_or_keep calls came
\* after the last non_dominated: the rows it handed on are the rows of the
\* current front below the reference point, and its result is their
\* hypervolume.
C29_HypervolumeOnCurrentFront ==
    [][((last.op = "hypervolume")' /\ (last.exc = "none")')
       => LET ref == [scalar |-> (last.mode = "scalar")', v |-> last'.arg]
              now == hypervolume_on_demand(Self, run.non_dom, ref)
          IN  /\ SetOf(run'.used) = SetOf(now.used)
              /\ run'.hyp = now.hyp]_vars

(***************************************************************************)
(* Bounded polynomial mutation.  Genes and limits are integers; the draws  *)
(* k and miu of np.random.random are multiples of 1/10 and of 1/MiuDen in  *)
(* [0, 1).  With a = x - lower, w = upper - lower and n = dis_mut + 1 the  *)
(* base of the root is a quotient of integers, so that its sign and the    *)
(* comparisons of the mutated gene with the limits are computed exactly:   *)
(* the gene is an integer ("exact"), a number strictly between two         *)
(* comparisons ("between": lower <= gene <= upper), above the upper limit, *)
(* below the lower limit, or NaN (the root of a negative base, or a        *)
(* product with the 0/0 and x/0 of equal limits).                          *)
(***************************************************************************)
MaxGenes == 2   \* genes of an offspring at most
MiuDen == 4     \* miu is drawn from 0/MiuDen .. (MiuDen - 1)/MiuDen
prob_mut == 3   \* 0.3, in tenths

Limits == {<<0, 1>>, <<0, 2>>, <<1, 1>>}
GeneValues == -2..3
KDraws == {0, prob_mut, prob_mut + 1}
MiuDraws == 0..(MiuDen - 1)
\* dis_mut + 1 is 2 or more: the exponent 1 / (dis_mut + 1) is not an
\* integer, and the power of a negative base is NaN.
DisMuts == {1, 2}

Exact(v) == [kind |-> "exact", v |-> v]
Inexact(kind) == [kind |-> kind, v |-> 0]

RECURSIVE Pow(_, _)
Pow(b, n) == IF n = 0 THEN 1 ELSE b * Pow(b, n - 1)

\* offspring[temp] + (max_val - min_val) * ((2 miu + (1 - 2 miu) *
\* (1 - offspring_scaled) ** (dis_mut + 1)) ** (1 / (dis_mut + 1)) - 1),
\* for miu < 0.5: the base is N / (MiuDen * w^n).
mutate_low(x, a, w, mu, n) ==
    LET N == 2 * mu * Pow(w, n) + (MiuDen - 2 * mu) * Pow(w - a, n)
    IN  IF w = 0 \/ N < 0 THEN Inexact("nan")
        ELSE IF N = MiuDen * Pow(w, n) THEN Exact(x)
        ELSE IF 2 * w - a < 0 \/ N > MiuDen * Pow(2 * w - a, n)
             THEN Inexact("above")
        ELSE IF w - a > 0 /\ N < MiuDen * Pow(w - a, n) THEN Inexact("below")
        ELSE Inexact("between")

\* offspring[temp] + (max_val - min_val) * (1 - (2 (1 - miu) + 2 (miu - 0.5)
\* * offspring_scaled ** (dis_mut + 1)) ** (1 / (dis_mut + 1))), for
\* miu >= 0.5.
mutate_high(x, a, w, mu, n) ==
    LET N == 2 * (MiuDen - mu) * Pow(w, n) + (2 * mu - MiuDen) * Pow(a, n)
    IN  IF w = 0 \/ N < 0 THEN Inexact("nan")
        ELSE IF N = MiuDen * Pow(w, n) THEN Exact(x)
        ELSE IF a > 0 /\ N < MiuDen * Pow(a, n) THEN Inexact("above")
        ELSE IF a + w < 0 \/ N > MiuDen * Pow(a + w, n) THEN Inexact("below")
        ELSE Inexact("between")

\* offspring[offspring > max_val] = max_val[...];
\* offspring[offspring < min_val] = min_val[...]: NaN compares False.
clip(y, min_val, max_val) ==
    IF y.kind = "above" \/ (y.kind = "exact" /\ y.v > max_val) THEN Exact(max_val)
    ELSE IF y.kind = "below" \/ (y.kind = "exact" /\ y.v < min_val)
         THEN Exact(min_val)
    ELSE y

\* One gene of mutation(population, offspring, prob_mut, dis_mut).
mutate_gene(x, min_val, max_val, k, mu, dis_mut) ==
    LET a == x - min_val
        w == max_val - min_val
        y == IF k <= prob_mut /\ 2 * mu < MiuDen
             THEN mutate_low(x, a, w, mu, dis_mut + 1)
             ELSE IF k <= prob_mut /\ 2 * mu >= MiuDen
                  THEN mutate_high(x, a, w, mu, dis_mut + 1)
                  ELSE Exact(x)
    IN  clip(y, min_val, max_val)

mutation(limits, offspring, k, miu, dis_mut) ==
    [g \in 1..Len(offspring) |->
        mutate_gene(offspring[g], limits[g][1], limits[g][2], k[g], miu[g],
                    dis_mut)]

(***************************************************************************)
(*   run.pc: "offspring" before the call, "mutated" after it.              *)
(***************************************************************************)
InitMutation ==
    /\ problem = [num_of_constraints |-> 0, objs |-> <<1, -1>>]
    /\ individuals = EmptyPopulation.individuals
    /\ objectives = EmptyPopulation.objectives
    /\ fitness = EmptyPopulation.fitness
    /\ constraint_violation = EmptyPopulation.constraint_violation
    /\ ideal_fitness = EmptyPopulation.ideal_fitness
    /\ worst_fitness = EmptyPopulation.worst_fitness
    /\ last = [op |-> "__init__", arg |-> <<>>, mode |-> "", size |-> 0,
               exc |-> "none"]
    /\ \E num_var \in 1..MaxGenes :
           \E limits \in [1..num_var -> Limits],
              offspring \in [1..num_var -> GeneValues] :
               run = [pc |-> "offspring", limits |-> limits,
                      offspring |-> offspring, k |-> <<>>, miu |-> <<>>,
                      dis_mut |-> 1, result |-> <<>>]

Mutation ==
    \E k \in [1..Len(run.offspring) -> KDraws],
       miu \in [1..Len(run.offspring) -> MiuDraws],
       dis_mut \in DisMuts :
        /\ run.pc = "offspring"
        /\ run' = [run EXCEPT !.pc = "mutated", !.k = k, !.miu = miu,
                              !.dis_mut = dis_mut,
                              !.result = mutation(run.limits, run.offspring,
                                                  k, miu, dis_mut)]
        /\ last' = Call("mutation", <<>>, "")
        /\ StorePop(Self)

NextMutation == Mutation

SpecMutation == InitMutation /\ [][NextMutation]_vars

\* C30: whatever the draws and the offspring, genes outside the limits
\* included, every gene mutation returns lies within the limits of its
\* variable, and a gene whose k is above prob_mut and that was within its
\* limits is returned as it was.
C30_MutationKeepsGenesWithinLimits ==
    run.pc = "mutated"
    => \A g \in 1..Len(run.offspring) :
           LET x == run.offspring[g]
               lower == run.limits[g][1]
               upper == run.limits[g][2]
               y == run.result[g]
           IN  /\ \/ y.kind = "between"
                  \/ y.kind = "exact" /\ lower <= y.v /\ y.v <= upper
               /\ (run.k[g] > prob_mut /\ lower <= x /\ x <= upper)
                  => y = Exact(x)

(***************************************************************************)
(* The evaluator: EvoNN and EvoDN2 problems, their fit and objectives.     *)
(* The numbers lstsq and the activation function compute are not modelled: *)
(* the hidden representation and the training error are terms over what    *)
(* the code reads to compute them (the data, the feature subsets, the      *)
(* genome, the parameters), together with the number of columns of the     *)
(* representation and whether its entries are finite.  The complexity is   *)
(* computed.                                                               *)
(*   run.self: the problem object: kind, X_train (NoneVal before fit),     *)
(*             subsets (NoneVal: None), params.                            *)
(*   run.pc: "constructed", "fitted", "raised" (fit raised).               *)
(*   run.genome, run.result: argument and outcome of the last objectives;  *)
(*   run.prev: the genome of the objectives call before it;                *)
(*   run.first: genome and outcome of the first objectives call;           *)
(*   run.model: the genome train stored in the model object.               *)
(***************************************************************************)
MaxSubnets == 2   \* params["num_subnets"] at most

Kinds == {"EvoNN", "EvoDN2"}
Datasets ==
    {[X |-> "X1", y |-> "y1", features |-> 1, finite |-> TRUE],
     [X |-> "X2", y |-> "y2", features |-> 2, finite |-> TRUE],
     [X |-> "Xnan", y |-> "y1", features |-> 1, finite |-> FALSE]}
Configs ==
    [activation_func : {"sigmoid", "relu"}, opt_func : {"llsq"},
     loss_func : {"rmse"}, num_subnets : 0..MaxSubnets]
EvalWidths == {0, 1}

\* random.sample(range(features), n) for n = random.randint(1, features):
\* the lists of n distinct feature indices.
Samples(features) ==
    {l \in SeqsUpTo(0..(features - 1), features) :
        /\ l # <<>>
        /\ \A i \in 1..Len(l) : \A j \in 1..Len(l) : l[i] = l[j] => i = j}

\* for n in range(features): if n is in no subset, append it to
\* subsets[random.randint(0, num_subnets - 1)], pick[n] being the draw.
RECURSIVE ensure_loop(_, _, _, _)
ensure_loop(subsets, n, features, pick) ==
    IF n = features THEN [raised |-> FALSE, subsets |-> subsets]
    ELSE IF \E k \in 1..Len(subsets) : n \in SetOf(subsets[k])
         THEN ensure_loop(subsets, n + 1, features, pick)
         ELSE IF Len(subsets) = 0
              THEN [raised |-> TRUE, subsets |-> subsets]
              ELSE ensure_loop([subsets EXCEPT ![pick[n] + 1] = Append(@, n)],
                               n + 1, features, pick)

\* A variant of fit without the loop that ensures every feature is used.
EvoDN2_fit_samples_only(self, training_data, samples, pick) ==
    [raised |-> FALSE,
     self |-> [self EXCEPT !.X_train = Some(training_data),
                           !.subsets = Some(samples)]]

\* EvoDN2.fit: samples[i] is the sample drawn for subnet i.  randint(0, -1)
\* raises ValueError when there is no subnet to take a missing feature.
EvoDN2_fit(self, training_data, samples, pick) ==
    LET r == ensure_loop(samples, 0, training_data.features, pick)
    IN  [raised |-> r.raised,
         self |-> [self EXCEPT !.X_train = Some(training_data),
                               !.subsets = Some(r.subsets)]]

\* EvoNN.fit
EvoNN_fit(self, training_data) ==
    [raised |-> FALSE, self |-> [self EXCEPT !.X_train = Some(training_data)]]

\* A layer of the given numbers of rows and columns, every entry 1.
UniformLayer(rows, columns) == [i \in 1..rows |-> [j \in 1..columns |-> 1]]

\* The genomes handed to objectives: for EvoNN a weight matrix of
\* features + 1 rows; for EvoDN2 a list of subnets of one layer each, with
\* len(subsets[i]) + 1 rows, and the list of no subnets.
EvalGenomes(self) ==
    IF self.kind = "EvoNN"
    THEN {UniformLayer(ValueOf(self.X_train).features + 1, n) : n \in EvalWidths}
    ELSE {<<>>}
         \cup {[i \in 1..Len(ValueOf(self.subsets)) |->
                   <<UniformLayer(Len(ValueOf(self.subsets)[i]) + 1, n)>>] :
                  n \in EvalWidths}

\* The hidden representation: np.hstack of the activated outputs of the
\* subnets (EvoDN2.activation), the activated X_train . w1[1:, :] + w1[0]
\* (EvoNN.activation).
hidden_representation(self, decision_variables) ==
    [columns |-> IF self.kind = "EvoNN" THEN Len(decision_variables[1])
                 ELSE Sum([i \in 1..Len(decision_variables) |->
                              Len(decision_variables[i]
                                      [Len(decision_variables[i])][1])]),
     finite |-> ValueOf(self.X_train).finite,
     X_train |-> ValueOf(self.X_train).X,
     subsets |-> IF self.kind = "EvoNN" THEN NoneVal
                 ELSE Some([i \in 1..Len(decision_variables) |->
                               ValueOf(self.subsets)[i]]),
     weights |-> decision_variables,
     activation_func |-> self.params.activation_func]

\* EvoDN2.optimize_layer / EvoNN.minimize_error and loss_function:
\* np.linalg.lstsq raises LinAlgError when the decomposition does not
\* converge (entries that are not finite), and returns the empty solution
\* for a matrix of no columns; the training error is the loss of y_train
\* against the prediction.
optimize_layer(self, activated_layer) ==
    IF activated_layer.columns > 0 /\ ~activated_layer.finite
    THEN [raised |-> TRUE, exc |-> "LinAlgError", training_error |-> NoneVal]
    ELSE [raised |-> FALSE, exc |-> "none",
          training_error |->
              Some([loss_func |-> self.params.loss_func,
                    y_train |-> ValueOf(self.X_train).y,
                    opt_func |-> self.params.opt_func,
                    activated_layer |-> activated_layer])]

\* A variant of objectives that reverses the first feature subset.
evaluator_objectives_reversing_subset(self, decision_variables) ==
    LET e == optimize_layer(self, hidden_representation(self, decision_variables))
        subsets == ValueOf(self.subsets)
    IN  [self |-> IF self.kind = "EvoDN2" /\ Len(subsets) > 0
                  THEN [self EXCEPT !.subsets =
                            Some([subsets EXCEPT ![1] =
                                     [k \in 1..Len(@) |-> @[Len(@) + 1 - k]]])]
                  ELSE self,
         decision_variables |-> decision_variables,
         exc |-> e.exc,
         obj |-> IF e.raised THEN NoneVal
                 ELSE Some(<<ValueOf(e.training_error),
                             complexity_objective(
                                 IF self.kind = "EvoNN" THEN "flat" ELSE "modular",
                                 decision_variables)>>)]

\* EvoNN.objectives / EvoDN2.objectives: obj_func = [training_error,
\* complexity]; self and decision_variables are what they are after the
\* call.
evaluator_objectives(self, decision_variables) ==
    LET e == optimize_layer(self, hidden_representation(self, decision_variables))
    IN  [self |-> self,
         decision_variables |-> decision_variables,
         exc |-> e.exc,
         obj |-> IF e.raised THEN NoneVal
                 ELSE Some(<<ValueOf(e.training_error),
                             complexity_objective(
                                 IF self.kind = "EvoNN" THEN "flat" ELSE "modular",
                                 decision_variables)>>)]

InitEval ==
    /\ problem = [num_of_constraints |-> 0, objs |-> <<1, -1>>]
    /\ individuals = EmptyPopulation.individuals
    /\ objectives = EmptyPopulation.objectives
    /\ fitness = EmptyPopulation.fitness
    /\ constraint_violation = EmptyPopulation.constraint_violation
    /\ ideal_fitness = EmptyPopulation.ideal_fitness
    /\ worst_fitness = EmptyPopulation.worst_fitness
    /\ last = [op |-> "__init__", arg |-> <<>>, mode |-> "", size |-> 0,
               exc |-> "none"]
    /\ \E kind \in Kinds, params \in Configs :
           run = [pc |-> "constructed",
                  self |-> [kind |-> kind, X_train |-> NoneVal,
                            subsets |-> NoneVal, params |-> params],
                  genome |-> NoneVal, result |-> NoneVal, prev |-> NoneVal,
                  first |-> NoneVal, model |-> NoneVal]

StoreEval(op, arg, exc) ==
    /\ last' = [Call(op, arg, "") EXCEPT !.exc = exc]
    /\ StorePop(Self)

\* problem.fit(training_data, target_values)
Fit ==
    \E training_data \in Datasets :
        /\ run.pc = "constructed"
        /\ \/ /\ run.self.kind = "EvoNN"
              /\ run' = [run EXCEPT !.pc = "fitted",
                                    !.self = EvoNN_fit(run.self, training_data).self]
              /\ StoreEval("fit", <<>>, "none")
           \/ /\ run.self.kind = "EvoDN2"
              /\ \E samples \in [1..run.self.params.num_subnets ->
                                    Samples(training_data.features)],
                    pick \in [0..(training_data.features - 1) ->
                                 0..(run.self.params.num_subnets - 1)] \cup
                             {<<>>} :
                     /\ (pick = <<>>) = (run.self.params.num_subnets = 0)
                     /\ LET r == EvoDN2_fit(run.self, training_data, samples, pick)
                        IN  /\ run' = [run EXCEPT
                                          !.pc = IF r.raised THEN "raised"
                                                 ELSE "fitted",
                                          !.self = r.self]
                            /\ StoreEval("fit", <<>>,
                                         IF r.raised THEN "ValueError" ELSE "none")

\* problem.objectives(decision_variables)
Objectives ==
    /\ run.pc = "fitted"
    /\ \E decision_variables \in EvalGenomes(run.self) :
        LET r == evaluator_objectives(run.self, decision_variables)
            result == [exc |-> r.exc, obj |-> r.obj]
        IN  /\ run' = [run EXCEPT
                          !.self = r.self,
                          !.genome = Some(r.decision_variables),
                          !.result = Some(result),
                          !.prev = run.genome,
                          !.first =
                              IF IsNone(run.first)
                              THEN Some([genome |-> decision_variables,
                                         result |-> result])
                              ELSE run.first]
            /\ StoreEval("objectives", <<decision_variables>>, r.exc)

\* problem.train(model): the genome select returns goes to model.subnets,
\* its representation and output layer are computed once more.
Train ==
    /\ run.pc = "fitted"
    /\ \E subnets \in EvalGenomes(run.self) :
        LET e == optimize_layer(run.self,
                                hidden_representation(run.self, subnets))
        IN  /\ run' = [run EXCEPT !.model = Some(subnets)]
            /\ StoreEval("train", <<>>, e.exc)

NextEval == Fit \/ Objectives \/ Train

SpecEval == InitEval /\ [][NextEval]_vars

(***************************************************************************)
(* Properties of the evaluator.                                            *)
(***************************************************************************)
Evaluation == last.op = "objectives"

Degenerate ==
    LET h == hidden_representation(run.self, ValueOf(run.genome))
    IN  h.columns = 0 \/ ~h.finite

\* C23: objectives of a genome whose hidden representation has zero columns
\* or whose least-squares solve does not converge fails with NumericalError
\* and returns no objective vector.
C23_DegenerateGenomeIsNumericalError ==
    (Evaluation /\ Degenerate)
    => /\ ValueOf(run.result).exc = "NumericalError"
       /\ IsNone(ValueOf(run.result).obj)

\* The feature subsets of a fitted EvoDN2 problem.
Fitted == run.pc = "fitted" /\ run.self.kind = "EvoDN2"
Features == 0..(ValueOf(run.self.X_train).features - 1)

\* C26: once fit has returned, every feature index is in some subset, every
\* subset is non-empty and holds distinct indices of features, and no later
\* step (objectives, train with its select) changes the subsets.
C26_SubsetsCoverFeaturesAndStay ==
    [][Fitted'
       => LET subsets == ValueOf(run'.self.subsets)
          IN  /\ \A n \in Features' : \E k \in 1..Len(subsets) :
                     n \in SetOf(subsets[k])
              /\ \A k \in 1..Len(subsets) :
                     /\ subsets[k] # <<>>
                     /\ SetOf(subsets[k]) \subseteq Features'
                     /\ Cardinality(SetOf(subsets[k])) = Len(subsets[k])
              /\ Fitted => run'.self.subsets = run.self.subsets]_vars

\* Two subsets, drawn as [1] and [1], the first of which was given feature
\* 0 by the loop; a genome was evaluated and a model trained since.
C26_Witness ==
    /\ Fitted
    /\ ValueOf(run.self.subsets) = <<<<1, 0>>, <<1>>>>
    /\ ~IsNone(run.genome)
    /\ last.op = "train"

=============================================================================
